---- MODULE Spec2Model ----
(***************************************************************************)
(* A model of the rusty-chip8 emulator: the Timer cell with its 60 Hz tick *)
(* thread (chip8/src/lib.rs, Timer), and the Chip machine: Ram, CPU        *)
(* registers, CPU::execute, CPU::cycle and the paced loop CPU::run, with   *)
(* the Console display and keyboard of src/main.rs.                        *)
(*                                                                         *)
(* Rust's integer overflow is build dependent (a panic with overflow       *)
(* checks, a wrap without): every arithmetic site takes the build's choice *)
(* as a parameter `checks`, drawn nondeterministically.                    *)
(***************************************************************************)
EXTENDS Integers, Sequences, FiniteSets, TLC

\* ------------------------------------------------------------- constants
RAM_SIZE == 4096
HEAD_OF_SPRITE == 0
HEAD_OF_PROGRAM == 512
WIDTH == 64
HEIGHT == 32
STACK_SIZE == 16
NANOS_PER_SEC == 1000000000
TIMER_HZ == 60
U8 == 256
U16 == 65536

\* ---------------------------------------------------------------- bounds
\* Timer values the CPU passes to Timer::set are 0..MaxSet.
MaxSet == 4

VARIABLES
    \* Timer (one instance with its tick thread and its calling CPU thread)
    val,        \* the byte behind Arc<Mutex<u8>>
    tick,       \* the tick thread's position: "test", "dec", "sleep", "dead"
    tickFault,  \* why the tick thread died: "none", "sub_overflow", "duration"
    poisoned,   \* the mutex is poisoned (a thread panicked holding its guard)
    caller,     \* the thread calling get/set: "ok" or "panicked"
    setDone,    \* history: set has been called
    setTo,      \* history: the argument of the last set
    got         \* history: the last value get returned since the last set

timerVars == <<val, tick, tickFault, poisoned, caller, setDone, setTo, got>>

VARIABLES
    \* CPU
    v,          \* v: [u8; 16]
    i,          \* i: u16
    pc,         \* pc: u16
    sp,         \* sp: u8
    stack,      \* stack: [u16; 16], indexed 0..15
    dt,         \* the delay timer's cell as the CPU sets and reads it
    st,         \* the sound timer's cell
    \* Ram
    ram,        \* buf: [u8; 4096], kept as the function of its nonzero bytes
    \* Console (src/main.rs)
    fb,         \* Display.state: the set of <<x, y>> whose pixel is 1
    pressed,    \* KeyState.pressed
    chan,       \* the rendezvous channel: the key handed to a blocked recv, or NoKey
    \* the main thread
    run,        \* "new", "loaded", "running", "waiting", "done", "panicked"
    d,          \* run's budget per step, in nanoseconds
    fault,      \* the panic that ended the main thread, or "none"
    faultOp,    \* the instruction a todo!() panic reports, or <<>>
    \* history
    lastOp,     \* the instruction the last completed cycle executed, or <<>>
    prev,       \* the machine as that cycle found it
    calls,      \* the pending CALLs: [a |-> address, sp |-> SP before it]
    matched,    \* the CALL the last RET returned from
    prog,       \* the program load was given
    prev2,      \* the machine as the cycle before the last found it
    seen,       \* what the last operation showed outside the CPU: the count
                \* load returned (n), the Display::clear calls (clears) and
                \* the key event Keyboard::wait received (key) in the last cycle
    oddTarget   \* a completed 0nnn, 1nnn, 2nnn or Bnnn had an odd target

\* The decoder applied to a byte pair on its own.
VARIABLES
    word,       \* the two bytes given to Inst::from
    inst        \* the Inst it returned, or <<>> before the call

cpuVars == <<v, i, pc, sp, stack, dt, st>>
chipVars == <<cpuVars, ram, fb, pressed, chan, run, d, fault, faultOp>>
histVars == <<lastOp, prev, calls, matched, prog, prev2, seen, oddTarget>>
fnVars == <<word, inst>>
vars == <<timerVars, chipVars, histVars, fnVars>>

\* A Duration subtraction a - b: Duration's Sub panics when b > a
\* ("overflow when subtracting durations").
DurationSubPanics(a, b) == b > a

\* ------------------------------------------------------------ bit helpers
\* Bit k of a byte, and a byte from its eight bits.
Bit(a, k) == (a \div (2 ^ k)) % 2

FromBits(f) ==
    f[0] + 2 * f[1] + 4 * f[2] + 8 * f[3] + 16 * f[4] + 32 * f[5] + 64 * f[6] + 128 * f[7]

BitAnd(a, b) == FromBits([k \in 0..7 |-> Bit(a, k) * Bit(b, k)])

BitOr(a, b) == FromBits([k \in 0..7 |-> IF Bit(a, k) + Bit(b, k) > 0 THEN 1 ELSE 0])

BitXor(a, b) == FromBits([k \in 0..7 |-> (Bit(a, k) + Bit(b, k)) % 2])

\* -------------------------------------------------------------------- Ram
\* Ram::new zero-fills buf: an address outside the function's domain holds 0.
RamNew == [a \in {} |-> 0]

RamGet(r, a) == IF a \in DOMAIN r THEN r[a] ELSE 0

RamPut(r, a, b) ==
    IF b = 0 THEN [z \in (DOMAIN r) \ {a} |-> r[z]] ELSE (a :> b) @@ r

\* Ram::load_slice: buf[start + k] = r[k] for every byte of the slice (a
\* sequence, 1-based here).
load_slice(r, start, bytes) ==
    LET over == start..(start + Len(bytes) - 1)
        dom == ((DOMAIN r) \ over) \cup {a \in over : bytes[a - start + 1] # 0}
    IN  [a \in dom |-> IF a \in over THEN bytes[a - start + 1] ELSE r[a]]

\* Ram::fetch: the slice buf[pc .. pc + 2] panics when pc + 2 > RAM_SIZE.
FetchPanics(a) == a + 2 > RAM_SIZE

fetch(r, a) == <<RamGet(r, a), RamGet(r, a + 1)>>

SPRITES == <<
    <<\b11110000, \b10010000, \b10010000, \b10010000, \b11110000>>,
    <<\b00100000, \b01100000, \b00100000, \b00100000, \b01110000>>,
    <<\b11110000, \b00010000, \b11110000, \b10000000, \b11110000>>,
    <<\b11110000, \b00010000, \b11110000, \b00010000, \b11110000>>,
    <<\b10010000, \b10010000, \b11110000, \b00010000, \b00010000>>,
    <<\b11110000, \b10000000, \b11110000, \b00010000, \b11110000>>,
    <<\b11110000, \b10000000, \b11110000, \b10010000, \b11110000>>,
    <<\b11110000, \b00010000, \b00100000, \b01000000, \b01000000>>,
    <<\b11110000, \b10010000, \b11110000, \b10010000, \b11110000>>,
    <<\b11110000, \b10010000, \b11110000, \b00010000, \b11110000>>,
    <<\b11110000, \b10010000, \b11110000, \b10010000, \b10010000>>,
    <<\b11100000, \b10010000, \b11100000, \b10010000, \b11100000>>,
    <<\b11110000, \b10000000, \b10000000, \b10000000, \b11110000>>,
    <<\b11100000, \b10010000, \b10010000, \b10010000, \b11100000>>,
    <<\b11110000, \b10000000, \b11110000, \b10000000, \b11110000>>,
    <<\b11110000, \b10000000, \b11110000, \b10000000, \b10000000>> >>

\* SPRITES.concat()
RECURSIVE concat(_)
concat(ss) == IF ss = <<>> THEN <<>> ELSE Head(ss) \o concat(Tail(ss))

\* ------------------------------------------------------------------- Inst
InstLowFirst(bytes) ==
    <<BitAnd(bytes[1], 15), bytes[1] \div 16, BitAnd(bytes[2], 15), bytes[2] \div 16>>
\* Inst::from(&[u8; 2]): the four nibbles of the two bytes.
Inst(bytes) ==
    <<bytes[1] \div 16, BitAnd(bytes[1], 15), bytes[2] \div 16, BitAnd(bytes[2], 15)>>

\* fn addr(n1, n2, n3) -> u16
addr(n1, n2, n3) == (n1 * 256) + (n2 * 16) + n3

\* fn val(k1, k2) -> u8 (the timer's cell holds the name val here)
valOf(k1, k2) == ((k1 * 16) % U8) + k2

\* The arm of execute's match that an instruction takes: the arms in their
\* order, the first that matches.
Decode(op) ==
    LET n0 == op[1]
        n1 == op[2]
        n2 == op[3]
        n3 == op[4]
    IN  IF n0 = 0 /\ n1 = 0 /\ n2 = 14 /\ n3 = 0 THEN "CLS"
        ELSE IF n0 = 0 /\ n1 = 0 /\ n2 = 14 /\ n3 = 14 THEN "RET"
        ELSE IF n0 = 0 THEN "SYS"
        ELSE IF n0 = 1 THEN "JP"
        ELSE IF n0 = 2 THEN "CALL"
        ELSE IF n0 = 3 THEN "SE_Vx_kk"
        ELSE IF n0 = 4 THEN "SNE_Vx_kk"
        ELSE IF n0 = 5 /\ n3 = 0 THEN "SE_Vx_Vy"
        ELSE IF n0 = 6 THEN "LD_Vx_kk"
        ELSE IF n0 = 7 THEN "ADD_Vx_kk"
        ELSE IF n0 = 8 /\ n3 = 0 THEN "LD_Vx_Vy"
        ELSE IF n0 = 8 /\ n3 = 1 THEN "OR"
        ELSE IF n0 = 8 /\ n3 = 2 THEN "AND"
        ELSE IF n0 = 8 /\ n3 = 3 THEN "XOR"
        ELSE IF n0 = 8 /\ n3 = 4 THEN "ADD_Vx_Vy"
        ELSE IF n0 = 8 /\ n3 = 5 THEN "SUB"
        ELSE IF n0 = 8 /\ n3 = 6 THEN "SHR"
        ELSE IF n0 = 8 /\ n3 = 7 THEN "SUBN"
        ELSE IF n0 = 8 /\ n3 = 14 THEN "SHL"
        ELSE IF n0 = 9 /\ n3 = 0 THEN "SNE_Vx_Vy"
        ELSE IF n0 = 10 THEN "LD_I"
        ELSE IF n0 = 11 THEN "JP_V0"
        ELSE IF n0 = 12 THEN "RND"
        ELSE IF n0 = 13 THEN "DRW"
        ELSE IF n0 = 14 /\ n2 = 9 /\ n3 = 14 THEN "SKP"
        ELSE IF n0 = 14 /\ n2 = 10 /\ n3 = 1 THEN "SKNP"
        ELSE IF n0 = 15 /\ n2 = 0 /\ n3 = 7 THEN "LD_Vx_DT"
        ELSE IF n0 = 15 /\ n2 = 0 /\ n3 = 10 THEN "LD_Vx_K"
        ELSE IF n0 = 15 /\ n2 = 1 /\ n3 = 5 THEN "LD_DT"
        ELSE IF n0 = 15 /\ n2 = 1 /\ n3 = 8 THEN "LD_ST"
        ELSE IF n0 = 15 /\ n2 = 1 /\ n3 = 14 THEN "ADD_I"
        ELSE IF n0 = 15 /\ n2 = 2 /\ n3 = 9 THEN "LD_F"
        ELSE IF n0 = 15 /\ n2 = 3 /\ n3 = 3 THEN "LD_B"
        ELSE IF n0 = 15 /\ n2 = 5 /\ n3 = 5 THEN "LD_I_Vx"
        ELSE IF n0 = 15 /\ n2 = 6 /\ n3 = 5 THEN "LD_Vx_I"
        ELSE "todo"

\* ----------------------------------------------------------------- Display
\* Display::draw (src/main.rs): every bit of every row, in order, is XORed
\* into state at ((x + dx) % WIDTH, (y + dy) % HEIGHT). f is the state so far
\* with the conflict flag; drawRow does the eight bits of row dy, which fall
\* on eight different pixels (WIDTH >= 8): hit is those whose bit (passed) is
\* 1; drawRows does the rows from dy on.
drawRow(f, x, y, s, dy) ==
    LET hit == {<<(x + dx) % WIDTH, (y + dy) % HEIGHT>> :
                    dx \in {k \in 0..7 : BitAnd(s \div (2 ^ (7 - k)), 1) = 1}}
    IN  [state |-> (f.state \ hit) \cup (hit \ f.state),
         conflict |-> f.conflict \/ (hit \cap f.state # {})]

RECURSIVE drawRows(_, _, _, _, _)
drawRows(f, x, y, sprite, dy) ==
    IF dy >= Len(sprite) THEN f
    ELSE drawRows(drawRow(f, x, y, sprite[dy + 1], dy), x, y, sprite, dy + 1)

draw(state, x, y, sprite) == drawRows([state |-> state, conflict |-> FALSE], x, y, sprite, 0)

\* ----------------------------------------------------------- CPU::execute
\* A machine m is a record of the CPU's fields, Ram's buf, the display's
\* state and the keyboard's pressed set (keys), with the panic that stopped
\* it (fault, faultOp), the Control its instruction yields (ctl) and the
\* calls of Display::clear the instruction made (clears).
Fault(m, why) == [m EXCEPT !.fault = why]

Next(m) == [m EXCEPT !.ctl = <<"Next", 0>>]

Skip(m) == [m EXCEPT !.ctl = <<"Skip", 0>>]

Jump(m, r) == [m EXCEPT !.ctl = <<"Jump", r>>]

SkipIfNot(m, cond) == IF cond THEN Next(m) ELSE Skip(m)
\* if cond { Skip } else { Next }
SkipIf(m, cond) == IF cond THEN Skip(m) ELSE Next(m)

\* u8::overflowing_add, u8::overflowing_sub: the wrapped result and whether
\* it overflowed.
saturating_add(a, b) == <<IF a + b >= U8 THEN U8 - 1 ELSE a + b, a + b >= U8>>
overflowing_add(a, b) == <<(a + b) % U8, a + b >= U8>>

overflowing_sub(a, b) == <<(a + U8 - b) % U8, a < b>>

\* CLS: display.clear() (one more call of it in m.clears), which zeroes state.
Cls(m) == Next([m EXCEPT !.fb = {}, !.clears = m.clears + 1])

RetTargetSame(saved) == saved
\* the target of RET: self.stack[self.sp] + 2
RetTarget(saved) == saved + 2

\* RET: self.sp -= 1 panics on 0 with overflow checks and wraps to 255
\* without; the index self.stack[sp] is then out of bounds.
Ret(m, checks) ==
    IF m.sp = 0 /\ checks THEN Fault(m, "sub_overflow")
    ELSE LET m1 == [m EXCEPT !.sp = (m.sp + U8 - 1) % U8]
         IN  IF m1.sp >= STACK_SIZE THEN Fault(m1, "index")
             ELSE Jump(m1, RetTarget(m1.stack[m1.sp]))

\* CALL: self.stack[self.sp] = self.pc; self.sp += 1; Jump(f)
Call(m, f) ==
    IF m.sp >= STACK_SIZE THEN Fault(m, "index")
    ELSE Jump([m EXCEPT !.stack[m.sp] = m.pc, !.sp = m.sp + 1], f)

Flag(b) == IF b THEN 1 ELSE 0

\* ADD Vx, Vy: Vx is written first, VF last.
AddVxVy(m, x, y) ==
    LET r == overflowing_add(m.v[x], m.v[y])
        m1 == [m EXCEPT !.v[x] = r[1]]
    IN  Next([m1 EXCEPT !.v[15] = Flag(r[2])])

BorrowFlagInverted(overflowed) == Flag(overflowed)
\* if !overflowed { 1 } else { 0 }
BorrowFlag(overflowed) == Flag(~overflowed)

SubVxVy(m, x, y) ==
    LET r == overflowing_sub(m.v[x], m.v[y])
        m1 == [m EXCEPT !.v[x] = r[1]]
    IN  Next([m1 EXCEPT !.v[15] = BorrowFlag(r[2])])

SubnVxVy(m, x, y) ==
    LET r == overflowing_sub(m.v[y], m.v[x])
        m1 == [m EXCEPT !.v[x] = r[1]]
    IN  Next([m1 EXCEPT !.v[15] = BorrowFlag(r[2])])

\* SHR: VF is written first, then Vx is shifted (x = F shifts the flag).
Shr(m, x) ==
    LET m1 == [m EXCEPT !.v[15] = BitAnd(m.v[x], 1)]
    IN  Next([m1 EXCEPT !.v[x] = m1.v[x] \div 2])

\* SHL: VF is written first, then Vx is shifted.
Shl(m, x) ==
    LET m1 == [m EXCEPT !.v[15] = BitAnd(m.v[x] \div 128, 1)]
    IN  Next([m1 EXCEPT !.v[x] = (m1.v[x] * 2) % U8])

DrwKeepFlag(m, x, y, n, checks) ==
    Next([m EXCEPT !.fb = draw(m.fb, m.v[x], m.v[y], [k \in 1..n |-> RamGet(m.ram, m.i + k - 1)]).state])
\* DRW: the slice ram.buf[i .. i + n] panics when it ends past the buffer;
\* i + n is u16 arithmetic.
Drw(m, x, y, n, checks) ==
    IF m.i + n >= U16 /\ checks THEN Fault(m, "add_overflow")
    ELSE LET start == m.i
             end == (m.i + n) % U16
         IN  IF start > end \/ end > RAM_SIZE THEN Fault(m, "slice")
             ELSE LET sprite == [k \in 1..n |-> RamGet(m.ram, start + k - 1)]
                      r == draw(m.fb, m.v[x], m.v[y], sprite)
                  IN  Next([m EXCEPT !.fb = r.state, !.v[15] = Flag(r.conflict)])

\* ADD I, Vx: self.i += Vx, in u16.
AddI(m, x, checks) ==
    IF m.i + m.v[x] >= U16 /\ checks THEN Fault(m, "add_overflow")
    ELSE Next([m EXCEPT !.i = (m.i + m.v[x]) % U16])

LdFUnscaled(m, x, checks) == Next([m EXCEPT !.i = HEAD_OF_SPRITE + m.v[x]])

\* LD F, Vx: HEAD_OF_SPRITE + (Vx * 5) as u16, the product in u8.
LdF(m, x, checks) ==
    IF m.v[x] * 5 >= U8 /\ checks THEN Fault(m, "mul_overflow")
    ELSE Next([m EXCEPT !.i = HEAD_OF_SPRITE + ((m.v[x] * 5) % U8)])

\* One store ram.buf[(self.i + k) as usize] = b of LD B, the sum in u16.
BcdPut(m, k, b, checks) ==
    IF m.fault # "none" THEN m
    ELSE IF m.i + k >= U16 /\ checks THEN Fault(m, "add_overflow")
    ELSE IF (m.i + k) % U16 >= RAM_SIZE THEN Fault(m, "index")
    ELSE [m EXCEPT !.ram = RamPut(m.ram, (m.i + k) % U16, b)]

LdBReversed(m, x, checks) ==
    LET b == m.v[x]
        m1 == BcdPut(m, 0, b % 10, checks)
        m2 == BcdPut(m1, 1, (b \div 10) % 10, checks)
        m3 == BcdPut(m2, 2, ((b \div 10) \div 10) % 10, checks)
    IN  IF m3.fault # "none" THEN m3 ELSE Next(m3)
\* LD B, Vx: the ones at I + 2, then the tens at I + 1, then the hundreds at I.
LdB(m, x, checks) ==
    LET b == m.v[x]
        m1 == BcdPut(m, 2, b % 10, checks)
        m2 == BcdPut(m1, 1, (b \div 10) % 10, checks)
        m3 == BcdPut(m2, 0, ((b \div 10) \div 10) % 10, checks)
    IN  IF m3.fault # "none" THEN m3 ELSE Next(m3)

RECURSIVE StoreRegsExclusive(_, _, _)
StoreRegsExclusive(m, x, k) ==
    IF k >= x THEN Next(m)
    ELSE IF m.i + k >= RAM_SIZE THEN Fault(m, "index")
    ELSE StoreRegsExclusive([m EXCEPT !.ram = RamPut(m.ram, m.i + k, m.v[k])], x, k + 1)
\* LD [I], Vx: for i in 0..x + 1 { ram.buf[I + i] = V[i] }, from register k on.
RECURSIVE StoreRegs(_, _, _)
StoreRegs(m, x, k) ==
    IF k >= x + 1 THEN Next(m)
    ELSE IF m.i + k >= RAM_SIZE THEN Fault(m, "index")
    ELSE StoreRegs([m EXCEPT !.ram = RamPut(m.ram, m.i + k, m.v[k])], x, k + 1)

\* LD Vx, [I]: for i in 0..x + 1 { V[i] = ram.buf[I + i] }, from register k on.
RECURSIVE LoadRegs(_, _, _)
LoadRegs(m, x, k) ==
    IF k >= x + 1 THEN Next(m)
    ELSE IF m.i + k >= RAM_SIZE THEN Fault(m, "index")
    ELSE LoadRegs([m EXCEPT !.v[k] = RamGet(m.ram, m.i + k)], x, k + 1)

UnmatchedIgnored(m, op) == Next(m)
\* _ => todo!("{:?}", op): the panic's message holds the instruction.
Unmatched(m, op) == [m EXCEPT !.fault = "todo", !.faultOp = op]

\* The match of execute. checks: the build's overflow checks; rnd: what
\* rand::random() returns; key: what Keyboard::wait returns; is_pressed
\* answers from m.keys.
Dispatch(m, op, checks, rnd, key) ==
    LET x == op[2]
        y == op[3]
        n == op[4]
        nnn == addr(op[2], op[3], op[4])
        kk == valOf(op[3], op[4])
        k == Decode(op)
    IN  CASE k = "CLS" -> Cls(m)
          [] k = "RET" -> Ret(m, checks)
          [] k = "SYS" -> Jump(m, nnn)
          [] k = "JP" -> Jump(m, nnn)
          [] k = "CALL" -> Call(m, nnn)
          [] k = "SE_Vx_kk" -> SkipIf(m, m.v[x] = kk)
          [] k = "SNE_Vx_kk" -> SkipIf(m, m.v[x] # kk)
          [] k = "SE_Vx_Vy" -> SkipIf(m, m.v[x] = m.v[y])
          [] k = "LD_Vx_kk" -> Next([m EXCEPT !.v[x] = kk])
          [] k = "ADD_Vx_kk" -> Next([m EXCEPT !.v[x] = overflowing_add(m.v[x], kk)[1]])
          [] k = "LD_Vx_Vy" -> Next([m EXCEPT !.v[x] = m.v[y]])
          [] k = "OR" -> Next([m EXCEPT !.v[x] = BitOr(m.v[x], m.v[y])])
          [] k = "AND" -> Next([m EXCEPT !.v[x] = BitAnd(m.v[x], m.v[y])])
          [] k = "XOR" -> Next([m EXCEPT !.v[x] = BitXor(m.v[x], m.v[y])])
          [] k = "ADD_Vx_Vy" -> AddVxVy(m, x, y)
          [] k = "SUB" -> SubVxVy(m, x, y)
          [] k = "SHR" -> Shr(m, x)
          [] k = "SUBN" -> SubnVxVy(m, x, y)
          [] k = "SHL" -> Shl(m, x)
          [] k = "SNE_Vx_Vy" -> SkipIf(m, m.v[x] # m.v[y])
          [] k = "LD_I" -> Next([m EXCEPT !.i = nnn])
          [] k = "JP_V0" -> Jump(m, m.v[0] + nnn)
          [] k = "RND" -> Next([m EXCEPT !.v[x] = BitAnd(rnd, kk)])
          [] k = "DRW" -> Drw(m, x, y, n, checks)
          [] k = "SKP" -> SkipIf(m, m.v[x] \in m.keys)
          [] k = "SKNP" -> SkipIf(m, ~(m.v[x] \in m.keys))
          [] k = "LD_Vx_DT" -> Next([m EXCEPT !.v[x] = m.dt])
          [] k = "LD_Vx_K" -> Next([m EXCEPT !.v[x] = key])
          [] k = "LD_DT" -> Next([m EXCEPT !.dt = m.v[x]])
          [] k = "LD_ST" -> Next([m EXCEPT !.st = m.v[x]])
          [] k = "ADD_I" -> AddI(m, x, checks)
          [] k = "LD_F" -> LdF(m, x, checks)
          [] k = "LD_B" -> LdB(m, x, checks)
          [] k = "LD_I_Vx" -> StoreRegs(m, x, 0)
          [] k = "LD_Vx_I" -> LoadRegs(m, x, 0)
          [] OTHER -> Unmatched(m, op)

ResolveShort(m) ==
    IF m.fault # "none" THEN m
    ELSE CASE m.ctl[1] = "Next" -> [m EXCEPT !.pc = m.pc + 2]
           [] m.ctl[1] = "Skip" -> [m EXCEPT !.pc = m.pc + 3]
           [] m.ctl[1] = "Jump" -> [m EXCEPT !.pc = m.ctl[2]]
\* match ctl { Next => pc += 2, Skip => pc += 4, Jump(r) => pc = r }; a
\* panic in the match leaves pc as it was. pc is below 4096 when a cycle
\* starts, so pc + 4 is within u16.
Resolve(m) ==
    IF m.fault # "none" THEN m
    ELSE CASE m.ctl[1] = "Next" -> [m EXCEPT !.pc = m.pc + 2]
           [] m.ctl[1] = "Skip" -> [m EXCEPT !.pc = m.pc + 4]
           [] m.ctl[1] = "Jump" -> [m EXCEPT !.pc = m.ctl[2]]

execute(m, op, checks, rnd, key) == Resolve(Dispatch(m, op, checks, rnd, key))

\* ------------------------------------------------------------------- Chip
NoKey == 16

Regs == 0..15

\* The machine as the variables hold it; keys is the pressed set a cycle finds.
Cur ==
    [v |-> v, i |-> i, pc |-> pc, sp |-> sp, stack |-> stack, dt |-> dt, st |-> st,
     ram |-> ram, fb |-> fb, keys |-> pressed, clears |-> 0,
     fault |-> "none", faultOp |-> <<>>, ctl |-> <<"Next", 0>>]

\* CPU::new, Ram::new, Chip::new (the font is loaded at HEAD_OF_SPRITE),
\* Console::display, Keyboard::new.
ChipNew ==
    /\ v = [r \in Regs |-> 0]
    /\ i = 0
    /\ stack = [k \in 0..(STACK_SIZE - 1) |-> 0]
    /\ sp = 0
    /\ pc = HEAD_OF_PROGRAM
    /\ dt = 0
    /\ st = 0
    /\ ram = load_slice(RamNew, HEAD_OF_SPRITE, concat(SPRITES))
    /\ fb = {}
    /\ pressed = {}
    /\ chan = NoKey
    /\ run = "new"
    /\ d = 0
    /\ fault = "none"
    /\ faultOp = <<>>
    /\ lastOp = <<>>
    /\ prev = <<>>
    /\ calls = <<>>
    /\ matched = [a |-> 0, sp |-> 0]
    /\ prog = [kind |-> "none", arg |-> <<>>, places |-> <<>>]
    /\ prev2 = <<>>
    /\ seen = [n |-> 0, clears |-> 0, key |-> NoKey]
    /\ oddTarget = FALSE

\* ---------------------------------------------------------------- programs
\* A program is [kind, arg, places]: kind names its family, arg holds the
\* numbers it was made from, and places is a sequence of <<address,
\* words>>, the instruction words (four nibbles each) its byte stream holds
\* from that address on; the stream's other bytes are 0. The stream starts
\* at HEAD_OF_PROGRAM and ends with the last word placed.
WordBytes(w) == <<(w[1] * 16) + w[2], (w[3] * 16) + w[4]>>

\* The stream's nonzero bytes by the address load puts them at.
PlaceWords(r, a, ws) ==
    load_slice(r, a, [k \in 1..(2 * Len(ws)) |-> WordBytes(ws[(k + 1) \div 2])[((k - 1) % 2) + 1]])

RECURSIVE Image(_)
Image(places) ==
    IF places = <<>> THEN RamNew
    ELSE PlaceWords(Image(Tail(places)), Head(places)[1], Head(places)[2])

RECURSIVE StreamEnd(_)
StreamEnd(places) ==
    IF places = <<>> THEN HEAD_OF_PROGRAM
    ELSE LET e == Head(places)[1] + (2 * Len(Head(places)[2]))
             r == StreamEnd(Tail(places))
         IN  IF e > r THEN e ELSE r

StreamLen(p) == StreamEnd(p.places) - HEAD_OF_PROGRAM

\* The most one read can hand over: what the stream holds, or the room left
\* in buf[start ..].
ReadMost(start, p) ==
    IF StreamLen(p) < RAM_SIZE - start THEN StreamLen(p) ELSE RAM_SIZE - start

\* The counts r.read may return: all it can hand over, or (a reader may
\* stop early) fewer but at least one byte; the early stops are looked at
\* for the "stream" programs.
ReadCounts(start, p) ==
    {ReadMost(start, p)}
        \cup (IF p.kind = "stream" /\ ReadMost(start, p) > 2 THEN {1, ReadMost(start, p) - 1} ELSE {})

loadWhole(r, start, p, n) == [ram |-> Image(p.places) @@ r, n |-> n]
\* Ram::load: r.read(&mut self.buf[start..]) copies the stream's first n
\* bytes over buf[start .. start + n] and returns n, the count the reader
\* read.
load(r, start, p, n) ==
    LET img == Image(p.places)
        dom == {a \in DOMAIN r : a < start \/ a >= start + n}
                 \cup {a \in DOMAIN img : a < start + n}
    IN  [ram |-> [a \in dom |-> IF a >= start /\ a < start + n THEN img[a] ELSE r[a]],
         n |-> n]

\* Register pairs <<x, y>> and byte values the programs below use: x and y
\* apart, the same, and either or both the flag register.
RegPairs == {<<0, 1>>, <<1, 1>>, <<15, 0>>, <<1, 15>>, <<15, 15>>}

ByteSamples == {0, 1, 2, 128, 255}

\* The keys the poll thread delivers (of the fourteen key_map maps).
KeySamples == {1}

\* What rand::random() returns.
RndSamples == {0, 165, 255}

\* cpu_hz as the command line gives it.
HzValues == {0, 60}

Straight(kind, arg, ws) ==
    [kind |-> kind, arg |-> arg, places |-> << <<HEAD_OF_PROGRAM, ws>> >>]

WithImm(n0, x, b) == <<n0, x, b \div 16, b % 16>>

WithAddr(n0, t) == <<n0, t \div 256, (t \div 16) % 16, t % 16>>

RetWord == <<0, 0, 14, 14>>

\* LD Vx, a; LD Vy, b; then one of the 8xy_ instructions.
AluPrograms ==
    {Straight("alu", <<r[1], r[2], a, b, f>>,
              <<WithImm(6, r[1], a), WithImm(6, r[2], b), <<8, r[1], r[2], f>>>>) :
        r \in RegPairs, a \in ByteSamples, b \in ByteSamples, f \in {4, 5, 6, 7, 14}}

SkipWord(t, x, y, b) ==
    CASE t = "SE_kk" -> WithImm(3, x, b)
      [] t = "SNE_kk" -> WithImm(4, x, b)
      [] t = "SE" -> <<5, x, y, 0>>
      [] t = "SNE" -> <<9, x, y, 0>>
      [] t = "SKP" -> <<14, x, 9, 14>>
      [] t = "SKNP" -> <<14, x, 10, 1>>

\* LD Vx, a; LD Vy, b; then one of the conditional skips.
SkipPrograms ==
    {Straight(t, <<r[1], r[2], a, b>>,
              <<WithImm(6, r[1], a), WithImm(6, r[2], b), SkipWord(t, r[1], r[2], b)>>) :
        r \in RegPairs, a \in ByteSamples, b \in ByteSamples,
        t \in {"SE_kk", "SNE_kk", "SE", "SNE", "SKP", "SKNP"}}

\* Calls nested depth deep: the call at 0x200 + 4k calls 0x200 + 4(k + 1), the
\* innermost routine is a RET, every routine returns after its call, and
\* the outermost call returns to a jump to 0xFFF.
MaxDepth == 17

ChainWords(depth) ==
    [j \in 1..((2 * depth) + 1) |->
        IF j = (2 * depth) + 1 THEN RetWord
        ELSE IF j % 2 = 1 THEN WithAddr(2, HEAD_OF_PROGRAM + (2 * (j + 1)))
        ELSE IF j = 2 THEN WithAddr(1, RAM_SIZE - 1)
        ELSE RetWord]

ChainPrograms == {Straight("chain", <<depth>>, ChainWords(depth)) : depth \in 1..MaxDepth}

\* A call from 0x200 to a routine placed at t, a RET.
FarPrograms ==
    {[kind |-> "far", arg |-> <<t>>,
      places |-> << <<HEAD_OF_PROGRAM, <<WithAddr(2, t), WithAddr(1, RAM_SIZE - 1)>> >>,
                    <<t, <<RetWord>> >> >>] : t \in {752, RAM_SIZE - 2}}

\* One instruction word alone: every last nibble of 5xy_, 8xy_ and 9xy_ and
\* every low byte of Ex__ and Fx__, and RET, CLS and a jump on a fresh machine.
WordSamples ==
    {<<n0, 1, 2, n3>> : n0 \in {5, 8, 9}, n3 \in 0..15}
        \cup {<<n0, 1, h, l>> : n0 \in {14, 15}, h \in 0..15, l \in 0..15}
        \cup {RetWord, <<0, 0, 14, 0>>, WithAddr(1, RAM_SIZE - 1)}

WordPrograms == {Straight("word", w, <<w>>) : w \in WordSamples}

\* Programs that run off the end of memory: by stepping, by a skip, by JP V0.
EndPrograms ==
    {[kind |-> "end", arg |-> <<0>>,
      places |-> << <<HEAD_OF_PROGRAM, <<WithAddr(1, RAM_SIZE - 2)>> >>,
                    <<RAM_SIZE - 2, <<WithImm(6, 0, 7)>> >> >>],
     [kind |-> "end", arg |-> <<1>>,
      places |-> << <<HEAD_OF_PROGRAM, <<WithAddr(1, RAM_SIZE - 2)>> >>,
                    <<RAM_SIZE - 2, <<WithImm(3, 0, 0)>> >> >>],
     Straight("end", <<2>>, <<WithImm(6, 0, 255), WithAddr(11, RAM_SIZE - 1)>>)}

\* 00E0 at 0x200 and 1200 at 0x202.
ClearPrograms == {Straight("clear", <<>>, <<<<0, 0, 14, 0>>, WithAddr(1, HEAD_OF_PROGRAM)>>)}

\* LD VF, f; LD Vx, a; ADD Vx, b.
ImmPrograms ==
    {Straight("imm", <<x, ab[1], ab[2], f>>,
              <<WithImm(6, 15, f), WithImm(6, x, ab[1]), WithImm(7, x, ab[2])>>) :
        x \in {0, 10, 15}, f \in {0, 1},
        ab \in {<<2, 5>>, <<255, 1>>, <<128, 128>>, <<0, 0>>, <<255, 255>>}}

\* LD VF, 7; LD V0, x; LD V1, y; LD I, a; then DRW V0, V1, n three times. At
\* 0 the font's glyphs are the sprite; at 0x300 the sprite's rows are all 0.
DrawPrograms ==
    {Straight("draw", <<x, y, n, a>>,
              <<WithImm(6, 15, 7), WithImm(6, 0, x), WithImm(6, 1, y), WithAddr(10, a),
                <<13, 0, 1, n>>, <<13, 0, 1, n>>, <<13, 0, 1, n>> >>) :
        x \in {0, 60, 255}, y \in {0, 30, 255}, n \in {1, 5, 15}, a \in {0, 768}}

\* Byte streams of several lengths: none at all, four bytes, one that ends
\* with the last byte of memory, and one two bytes longer than the room
\* from 0x200 on.
StreamPrograms ==
    {[kind |-> "stream", arg |-> <<0>>, places |-> <<>>],
     Straight("stream", <<1>>, <<WithImm(6, 10, 2), WithImm(7, 10, 5)>>),
     [kind |-> "stream", arg |-> <<2>>,
      places |-> << <<HEAD_OF_PROGRAM, <<WithImm(6, 10, 2)>> >>,
                    <<RAM_SIZE - 2, <<WithImm(6, 0, 7)>> >> >>],
     [kind |-> "stream", arg |-> <<3>>,
      places |-> << <<HEAD_OF_PROGRAM, <<WithImm(6, 10, 2)>> >>,
                    <<RAM_SIZE - 2, <<WithImm(6, 0, 7), <<15, 15, 15, 15>> >> >> >>]}

\* LD Vx, b; LD I, a; LD B, Vx.
BcdPrograms ==
    {Straight("bcd", <<x, b, a>>, <<WithImm(6, x, b), WithAddr(10, a), <<15, x, 3, 3>> >>) :
        x \in {1, 15}, b \in {0, 7, 10, 99, 100, 128, 205, 255},
        a \in {768, RAM_SIZE - 3, RAM_SIZE - 2}}

\* What the "regs" programs hold in register k when they store.
RegsStored(arg, k) ==
    IF k = 0 THEN arg[3] ELSE IF k = 1 THEN arg[4] ELSE IF k = 15 THEN arg[5] ELSE 0

\* LD V0, a0; LD V1, a1; LD VF, af; LD I, a; LD [I], Vx; then V0, V1 and VF
\* are overwritten with 0x55; LD Vx, [I].
RegsPrograms ==
    {Straight("regs", <<x, a, t[1], t[2], t[3]>>,
              <<WithImm(6, 0, t[1]), WithImm(6, 1, t[2]), WithImm(6, 15, t[3]), WithAddr(10, a),
                <<15, x, 5, 5>>,
                WithImm(6, 0, 85), WithImm(6, 1, 85), WithImm(6, 15, 85),
                <<15, x, 6, 5>> >>) :
        x \in {0, 1, 15}, a \in {768, RAM_SIZE - 16},
        t \in {<<1, 2, 3>>, <<255, 0, 128>>}}

\* LD Vx, digit; LD F, Vx.
FontPrograms ==
    {Straight("font", <<x, digit>>, <<WithImm(6, x, digit), <<15, x, 2, 9>> >>) :
        x \in {0, 15}, digit \in (0..16) \cup {51, 52, 255}}

\* The index-relative instruction an "index" program ends with.
IndexOp(o) ==
    IF o = 1 THEN <<15, 1, 3, 3>>
    ELSE IF o = 2 THEN <<15, 1, 5, 5>>
    ELSE IF o = 3 THEN <<15, 1, 6, 5>>
    ELSE <<13, 0, 1, 5>>

\* LD V1, 123; LD I, 0xFFE; LD V0, 255; ADD I, V0 as often as it takes;
\* LD V0, the rest; ADD I, V0; then the instruction, with I = t.
IndexPrograms ==
    {Straight("index", <<t[1], t[2]>>,
              <<WithImm(6, 1, 123), WithAddr(10, RAM_SIZE - 2), WithImm(6, 0, 255)>>
                \o [k \in 1..((t[1] - (RAM_SIZE - 2)) \div 255) |-> <<15, 0, 1, 14>>]
                \o <<WithImm(6, 0, (t[1] - (RAM_SIZE - 2)) % 255), <<15, 0, 1, 14>>,
                     IndexOp(t[2])>>) :
        t \in ({RAM_SIZE - 1, RAM_SIZE} \X (1..4))
                 \cup {<<U16 - 2, 1>>, <<U16 - 2, 4>>, <<U16 - 1, 1>>}}

\* Programs that wait for keys. 0: LD V1, K; LD V2, K; JP 0xFFF. 1: LD V1, 1;
\* SKP V1; JP 0x202; LD V2, K; JP 0xFFF, which waits only once key 1 has
\* been seen pressed.
KeyPrograms ==
    {Straight("keys", <<0>>, <<<<15, 1, 0, 10>>, <<15, 2, 0, 10>>, WithAddr(1, RAM_SIZE - 1)>>),
     Straight("keys", <<1>>, <<WithImm(6, 1, 1), <<14, 1, 9, 14>>,
                               WithAddr(1, HEAD_OF_PROGRAM + 2), <<15, 2, 0, 10>>,
                               WithAddr(1, RAM_SIZE - 1)>>)}

Programs == AluPrograms \cup SkipPrograms \cup ChainPrograms \cup FarPrograms
                \cup WordPrograms \cup EndPrograms \cup ClearPrograms
                \cup ImmPrograms \cup DrawPrograms \cup StreamPrograms
                \cup BcdPrograms \cup RegsPrograms \cup FontPrograms \cup IndexPrograms

\* ------------------------------------------------------------ main thread
\* chip.load(&mut File::open(args.rom)...): the program is copied to
\* HEAD_OF_PROGRAM.
Load ==
    /\ run = "new"
    /\ \E p \in Programs :
         \E n \in ReadCounts(HEAD_OF_PROGRAM, p) :
           /\ ram' = load(ram, HEAD_OF_PROGRAM, p, n).ram
           /\ seen' = [seen EXCEPT !.n = load(ram, HEAD_OF_PROGRAM, p, n).n]
           /\ prog' = p
    /\ run' = "loaded"
    /\ UNCHANGED <<cpuVars, fb, pressed, chan, d, fault, faultOp>>
    /\ UNCHANGED <<lastOp, prev, calls, matched, prev2, oddTarget>>
    /\ UNCHANGED <<timerVars, fnVars>>

\* CPU::run, before the loop: let d = Duration::new(1, 0) / hz; dividing a
\* Duration by 0 panics.
StartRun ==
    /\ run = "loaded"
    /\ \E hz \in HzValues :
         IF hz = 0
           THEN run' = "panicked" /\ fault' = "div_zero" /\ UNCHANGED d
           ELSE run' = "running" /\ d' = NANOS_PER_SEC \div hz /\ UNCHANGED fault
    /\ UNCHANGED <<cpuVars, ram, fb, pressed, chan, faultOp, histVars>>
    /\ UNCHANGED <<timerVars, fnVars>>

\* The time a pass of the loop may have taken when it computes its sleep.
Elapsed == {0, d, d + 1}

RandomFor(op) == IF Decode(op) = "RND" THEN RndSamples ELSE {0}

\* The rest of a pass once execute has returned or panicked: the machine m
\* it left, dump, and thread::sleep(d - (Instant::now() - now)).
Retire(m, op, elapsed) ==
    /\ v' = m.v
    /\ i' = m.i
    /\ pc' = m.pc
    /\ sp' = m.sp
    /\ stack' = m.stack
    /\ dt' = m.dt
    /\ st' = m.st
    /\ ram' = m.ram
    /\ fb' = m.fb
    /\ faultOp' = m.faultOp
    /\ IF m.fault # "none"
         THEN run' = "panicked" /\ fault' = m.fault
         ELSE IF DurationSubPanics(d, elapsed)
           THEN run' = "panicked" /\ fault' = "duration"
           ELSE run' = "running" /\ fault' = "none"
    /\ lastOp' = op
    /\ prev' = Cur
    /\ calls' = IF m.fault # "none" THEN calls
                ELSE IF op[1] = 2 THEN Append(calls, [a |-> pc, sp |-> sp])
                ELSE IF op = RetWord /\ calls # <<>> THEN SubSeq(calls, 1, Len(calls) - 1)
                ELSE calls
    /\ matched' = IF m.fault = "none" /\ op = RetWord /\ calls # <<>>
                    THEN calls[Len(calls)]
                    ELSE matched
    /\ prev2' = prev
    /\ seen' = [n |-> seen.n, clears |-> m.clears,
                key |-> IF run = "waiting" THEN chan ELSE NoKey]
    /\ oddTarget' = (oddTarget \/ (/\ m.fault = "none"
                                   /\ Decode(op) \in {"SYS", "JP", "CALL", "JP_V0"}
                                   /\ m.pc % 2 = 1))
    /\ UNCHANGED <<pressed, d, prog>>

\* The loop of CPU::run leaves when pc + 1 >= RAM_SIZE.
RunDone ==
    /\ run = "running"
    /\ pc + 1 >= RAM_SIZE
    /\ run' = "done"
    /\ UNCHANGED <<cpuVars, ram, fb, pressed, chan, d, fault, faultOp, histVars>>
    /\ UNCHANGED <<timerVars, fnVars>>

\* One pass of the loop: CPU::cycle (fetch, execute, dump), then the sleep.
RunCycle ==
    /\ run = "running"
    /\ pc + 1 < RAM_SIZE
    /\ ~FetchPanics(pc)
    /\ LET op == Inst(fetch(ram, pc))
       IN  /\ Decode(op) # "LD_Vx_K"
           /\ \E checks \in BOOLEAN, rnd \in RandomFor(op), elapsed \in Elapsed :
                Retire(execute(Cur, op, checks, rnd, NoKey), op, elapsed)
    /\ UNCHANGED chan
    /\ UNCHANGED <<timerVars, fnVars>>

\* A pass whose instruction is LD Vx, K: the main thread blocks in
\* Keyboard::wait (rx.recv()).
RunWait ==
    /\ run = "running"
    /\ pc + 1 < RAM_SIZE
    /\ ~FetchPanics(pc)
    /\ Decode(Inst(fetch(ram, pc))) = "LD_Vx_K"
    /\ run' = "waiting"
    /\ UNCHANGED <<cpuVars, ram, fb, pressed, chan, d, fault, faultOp, histVars>>
    /\ UNCHANGED <<timerVars, fnVars>>

\* recv returns the key handed over; the pass goes on.
WaitReturn ==
    /\ run = "waiting"
    /\ chan # NoKey
    /\ \E checks \in BOOLEAN, elapsed \in Elapsed :
         \E m \in {execute(Cur, Inst(fetch(ram, pc)), checks, 0, chan)} :
           Retire(m, Inst(fetch(ram, pc)), elapsed)
    /\ chan' = NoKey
    /\ UNCHANGED <<timerVars, fnVars>>

\* -------------------------------------------------------- keyboard threads
Alive == run \in {"new", "loaded", "running", "waiting"}

\* The poll thread had the channel a buffer of one key.
KeyPressBuffered ==
    /\ Alive
    /\ \E k \in KeySamples :
         /\ pressed' = pressed \cup {k}
         /\ chan' = IF chan = NoKey THEN k ELSE chan
    /\ UNCHANGED <<cpuVars, ram, fb, run, d, fault, faultOp, histVars>>
    /\ UNCHANGED <<timerVars, fnVars>>

\* The poll thread on a mapped key: m.insert(*val); k.tx.try_send(*val). The
\* channel has no buffer: try_send hands the key over only to a receiver
\* blocked in recv.
KeyPress ==
    /\ Alive
    /\ \E k \in KeySamples :
         /\ pressed' = pressed \cup {k}
         /\ chan' = IF run = "waiting" /\ chan = NoKey THEN k ELSE chan
    /\ UNCHANGED <<cpuVars, ram, fb, run, d, fault, faultOp, histVars>>
    /\ UNCHANGED <<timerVars, fnVars>>

\* The keep-time thread: m.clear().
KeepClear ==
    /\ Alive
    /\ pressed' = {}
    /\ UNCHANGED <<cpuVars, ram, fb, chan, run, d, fault, faultOp, histVars>>
    /\ UNCHANGED <<timerVars, fnVars>>

\* ---------------------------------------------------------- the dbg driver
\* src/dbg/src/main.rs: a Chip with the Mock display and a Keyboard whose
\* pressed list is set from each line of stdin, stepped by chip.cycle().
\* What dbg's Keyboard::wait returns.
DbgWait == 0

\* DRW with Mock: the slice is taken as in Drw, Mock::draw returns false.
DrwMock(m, x, y, n, checks) ==
    IF m.i + n >= U16 /\ checks THEN Fault(m, "add_overflow")
    ELSE IF m.i > (m.i + n) % U16 \/ (m.i + n) % U16 > RAM_SIZE THEN Fault(m, "slice")
    ELSE Next([m EXCEPT !.v[15] = 0])

\* CLS with Mock: Mock::clear only prints.
ClsMock(m) == Next([m EXCEPT !.clears = m.clears + 1])

executeDbg(m, op, checks, rnd) ==
    Resolve(CASE Decode(op) = "DRW" -> DrwMock(m, op[2], op[3], op[4], checks)
              [] Decode(op) = "CLS" -> ClsMock(m)
              [] OTHER -> Dispatch(m, op, checks, rnd, DbgWait))

\* The keys a line of stdin names.
DbgKeys == {{}, {1}}

\* chip.load(&mut File::open(args.rom)...) of dbg's main.
DbgLoad ==
    /\ run = "new"
    /\ \E p \in WordPrograms :
         \E n \in ReadCounts(HEAD_OF_PROGRAM, p) :
           /\ ram' = load(ram, HEAD_OF_PROGRAM, p, n).ram
           /\ seen' = [seen EXCEPT !.n = load(ram, HEAD_OF_PROGRAM, p, n).n]
           /\ prog' = p
    /\ run' = "stepping"
    /\ UNCHANGED <<cpuVars, fb, pressed, chan, d, fault, faultOp>>
    /\ UNCHANGED <<lastOp, prev, calls, matched, prev2, oddTarget>>
    /\ UNCHANGED <<timerVars, fnVars>>

\* The rest of a pass of dbg's loop once execute has returned or panicked.
DbgRetire(m, op) ==
    /\ v' = m.v
    /\ i' = m.i
    /\ pc' = m.pc
    /\ sp' = m.sp
    /\ stack' = m.stack
    /\ dt' = m.dt
    /\ st' = m.st
    /\ ram' = m.ram
    /\ fb' = m.fb
    /\ faultOp' = m.faultOp
    /\ fault' = m.fault
    /\ run' = IF m.fault # "none" THEN "panicked" ELSE "stepping"
    /\ lastOp' = op
    /\ calls' = IF m.fault # "none" THEN calls
                ELSE IF op[1] = 2 THEN Append(calls, [a |-> pc, sp |-> sp])
                ELSE IF op = RetWord /\ calls # <<>> THEN SubSeq(calls, 1, Len(calls) - 1)
                ELSE calls
    /\ matched' = IF m.fault = "none" /\ op = RetWord /\ calls # <<>>
                    THEN calls[Len(calls)]
                    ELSE matched
    /\ prev2' = prev
    /\ seen' = [n |-> seen.n, clears |-> m.clears, key |-> NoKey]
    /\ oddTarget' = (oddTarget \/ (/\ m.fault = "none"
                                   /\ Decode(op) \in {"SYS", "JP", "CALL", "JP_V0"}
                                   /\ m.pc % 2 = 1))
    /\ UNCHANGED prog

\* One pass of dbg's loop: a line is read, the pressed list is replaced by
\* the keys it names, and chip.cycle() runs (fetch, execute, dump); there is
\* no test of pc before the fetch.
DbgCycle ==
    /\ run = "stepping"
    /\ \E keys \in DbgKeys :
         /\ pressed' = keys
         /\ IF FetchPanics(pc)
              THEN /\ run' = "panicked"
                   /\ fault' = "slice"
                   /\ UNCHANGED <<cpuVars, ram, fb, faultOp, histVars>>
              ELSE /\ prev' = [Cur EXCEPT !.keys = keys]
                   /\ \E checks \in BOOLEAN, rnd \in RandomFor(Inst(fetch(ram, pc))) :
                        DbgRetire(executeDbg([Cur EXCEPT !.keys = keys], Inst(fetch(ram, pc)),
                                             checks, rnd),
                                  Inst(fetch(ram, pc)))
    /\ UNCHANGED <<chan, d>>
    /\ UNCHANGED <<timerVars, fnVars>>

\* ------------------------------------------------------------------ Timer
NoGet == U8

SetValues == 0..MaxSet

\* dul: the tick period in nanoseconds.
dul == NANOS_PER_SEC \div TIMER_HZ

\* The time one pass of the tick loop may have taken when it computes its sleep.
TickElapsed == {0, dul, dul + 1}

TimerNew ==
    /\ val = 0
    /\ tick = "test"
    /\ tickFault = "none"
    /\ poisoned = FALSE
    /\ caller = "ok"
    /\ setDone = FALSE
    /\ setTo = 0
    /\ got = NoGet

TickNonZeroLax(x) == x >= 0
\* The tick's test `*val.lock().unwrap() > 0`.
TickNonZero(x) == x > 0

\* if *val.lock().unwrap() > 0 { : the guard is a temporary of the condition
\* and is released before the block is entered.
TickTest ==
    /\ tick = "test"
    /\ IF poisoned
         THEN tick' = "dead"
         ELSE tick' = IF TickNonZero(val) THEN "dec" ELSE "sleep"
    /\ UNCHANGED <<val, tickFault, poisoned, caller, setDone, setTo, got>>
    /\ UNCHANGED <<chipVars, histVars, fnVars>>

\* *val.lock().unwrap() -= 1; under a second acquisition of the lock. With
\* overflow checks 0 - 1 panics while the guard is held (the mutex is
\* poisoned); without them it wraps to 255.
TickDec ==
    /\ tick = "dec"
    /\ \E checks \in BOOLEAN :
         IF poisoned
           THEN /\ tick' = "dead"
                /\ UNCHANGED <<val, tickFault, poisoned>>
           ELSE IF val = 0 /\ checks
             THEN /\ tick' = "dead"
                  /\ tickFault' = "sub_overflow"
                  /\ poisoned' = TRUE
                  /\ UNCHANGED val
             ELSE /\ val' = (val + U8 - 1) % U8
                  /\ tick' = "sleep"
                  /\ UNCHANGED <<tickFault, poisoned>>
    /\ UNCHANGED <<caller, setDone, setTo, got>>
    /\ UNCHANGED <<chipVars, histVars, fnVars>>

\* thread::sleep(dul - (Instant::now() - n));
TickSleep ==
    /\ tick = "sleep"
    /\ \E elapsed \in TickElapsed :
         IF DurationSubPanics(dul, elapsed)
           THEN tick' = "dead" /\ tickFault' = "duration"
           ELSE tick' = "test" /\ UNCHANGED tickFault
    /\ UNCHANGED <<val, poisoned, caller, setDone, setTo, got>>
    /\ UNCHANGED <<chipVars, histVars, fnVars>>

\* Timer::set, called by the CPU (Fx15, Fx18).
Set(x) ==
    /\ caller = "ok"
    /\ IF poisoned
         THEN /\ caller' = "panicked"
              /\ UNCHANGED <<val, setDone, setTo, got>>
         ELSE /\ val' = x
              /\ setDone' = TRUE
              /\ setTo' = x
              /\ got' = NoGet
              /\ UNCHANGED caller
    /\ UNCHANGED <<tick, tickFault, poisoned>>
    /\ UNCHANGED <<chipVars, histVars, fnVars>>

\* Timer::get, called by the CPU (Fx07, dump).
Get ==
    /\ caller = "ok"
    /\ IF poisoned
         THEN caller' = "panicked" /\ UNCHANGED got
         ELSE got' = val /\ UNCHANGED caller
    /\ UNCHANGED <<val, tick, tickFault, poisoned, setDone, setTo>>
    /\ UNCHANGED <<chipVars, histVars, fnVars>>

SetAny == \E x \in SetValues : Set(x)

SetOnce == ~setDone /\ \E x \in SetValues : Set(x)


\* --------------------------------------------------------- specifications
\* No byte pair has been given to the decoder.
DecoderNew == word = <<0, 0>> /\ inst = <<>>

Init == ChipNew /\ TimerNew /\ DecoderNew

\* Every pair of bytes.
DecodeWords == {<<b0, b1>> : b0 \in 0..(U8 - 1), b1 \in 0..(U8 - 1)}

\* The decoder is given any pair of bytes.
InitDecode == ChipNew /\ TimerNew /\ word \in DecodeWords /\ inst = <<>>

\* let op = Inst::from(bytes)
FromBytes ==
    /\ inst = <<>>
    /\ inst' = Inst(word)
    /\ UNCHANGED <<word, timerVars, chipVars, histVars>>

NextDecode == FromBytes

\* Inst::from on its own, from any pair of bytes.
SpecDecode == InitDecode /\ [][NextDecode]_vars

NextChip ==
    \/ Load
    \/ StartRun
    \/ RunDone
    \/ RunCycle
    \/ RunWait
    \/ WaitReturn
    \/ KeyPress
    \/ KeepClear

\* main of src/main.rs: a Chip is made, a program loaded and run.
Spec == Init /\ [][NextChip]_vars

NextTimer == TickTest \/ TickDec \/ TickSleep \/ SetAny \/ Get

NextTimerOnce == TickTest \/ TickDec \/ TickSleep \/ SetOnce \/ Get

\* Chip::load of a program that waits for keys.
LoadKeys ==
    /\ run = "new"
    /\ \E p \in KeyPrograms :
         \E n \in ReadCounts(HEAD_OF_PROGRAM, p) :
           /\ ram' = load(ram, HEAD_OF_PROGRAM, p, n).ram
           /\ seen' = [seen EXCEPT !.n = load(ram, HEAD_OF_PROGRAM, p, n).n]
           /\ prog' = p
    /\ run' = "loaded"
    /\ UNCHANGED <<cpuVars, fb, pressed, chan, d, fault, faultOp>>
    /\ UNCHANGED <<lastOp, prev, calls, matched, prev2, oddTarget>>
    /\ UNCHANGED <<timerVars, fnVars>>

NextKeys ==
    \/ LoadKeys
    \/ StartRun
    \/ RunDone
    \/ RunCycle
    \/ RunWait
    \/ WaitReturn
    \/ KeyPress
    \/ KeepClear

\* The console binary on programs that wait for keys, while mapped keys
\* keep being pressed and the main thread, once handed a key, runs.
SpecKeys == Init /\ [][NextKeys]_vars /\ WF_vars(KeyPress) /\ WF_vars(WaitReturn)

NextDbg == DbgLoad \/ DbgCycle

\* main of src/dbg/src/main.rs.
SpecDbg == Init /\ [][NextDbg]_vars

\* A timer whose CPU sets it at any time.
SpecTimer == Init /\ [][NextTimer]_vars

\* A timer set once; the tick thread is scheduled fairly.
SpecTimerOnce ==
    /\ Init
    /\ [][NextTimerOnce]_vars
    /\ WF_vars(TickTest) /\ WF_vars(TickDec) /\ WF_vars(TickSleep)

\* ------------------------------------------------------------------ claims
\* C1: under every interleaving of the tick thread with set, the tick never
\* decrements a stored 0: the value never wraps to 255 and the tick never
\* faults on the subtraction.
C1_TickNeverBelowZero ==
    /\ tickFault # "sub_overflow"
    /\ val <= MaxSet

Completed == lastOp # <<>> /\ fault \in {"none", "duration"}

\* C3: a completed CALL at address a leaves a in stack[SP before], SP one
\* higher and PC = nnn; a completed RET leaves SP one lower and PC = a + 2
\* for the CALL at a it returns from, with SP as before that CALL, at every
\* nesting depth.
C3_CallReturn ==
    /\ (Completed /\ lastOp[1] = 2) =>
          /\ stack[prev.sp] = prev.pc
          /\ sp = prev.sp + 1
          /\ pc = (256 * lastOp[2]) + (16 * lastOp[3]) + lastOp[4]
          /\ calls # <<>> /\ calls[Len(calls)] = [a |-> prev.pc, sp |-> prev.sp]
    /\ (Completed /\ lastOp = RetWord) =>
          /\ sp = prev.sp - 1
          /\ pc = matched.a + 2
          /\ sp = matched.sp
          /\ Len(calls) = sp

C3_Witness ==
    /\ prog.kind = "chain" /\ prog.arg = <<STACK_SIZE>>
    /\ lastOp = RetWord /\ fault = "none"
    /\ calls = <<>> /\ sp = 0 /\ pc = HEAD_OF_PROGRAM + 2

\* C4: SP is at most 16 in every state, and a CALL with SP = 16 or a RET
\* with SP = 0 stops the machine with SP, the stack and PC as they were.
C4_StackBounds ==
    /\ sp <= STACK_SIZE
    /\ (lastOp # <<>> /\ ((lastOp[1] = 2 /\ prev.sp = STACK_SIZE) \/ (lastOp = RetWord /\ prev.sp = 0))) =>
          /\ run = "panicked" /\ fault \notin {"none", "duration"}
          /\ sp = prev.sp /\ stack = prev.stack /\ pc = prev.pc

\* The conditional skips and their conditions on the machine m they find.
IsSkip(op) ==
    \/ op[1] \in {3, 4}
    \/ op[1] \in {5, 9} /\ op[4] = 0
    \/ op[1] = 14 /\ <<op[3], op[4]>> \in {<<9, 14>>, <<10, 1>>}

SkipCondition(op, m) ==
    CASE op[1] = 3 -> m.v[op[2]] = (16 * op[3]) + op[4]
      [] op[1] = 4 -> m.v[op[2]] # (16 * op[3]) + op[4]
      [] op[1] = 5 -> m.v[op[2]] = m.v[op[3]]
      [] op[1] = 9 -> m.v[op[2]] # m.v[op[3]]
      [] op[1] = 14 /\ op[3] = 9 -> m.v[op[2]] \in m.keys
      [] op[1] = 14 /\ op[3] = 10 -> m.v[op[2]] \notin m.keys

\* C5: each conditional skip completes, advances PC by 4 when its condition
\* holds and by 2 otherwise, and changes no register, I, SP, stack or memory.
C5_Skips ==
    (lastOp # <<>> /\ IsSkip(lastOp)) =>
        /\ Completed
        /\ pc = prev.pc + (IF SkipCondition(lastOp, prev) THEN 4 ELSE 2)
        /\ v = prev.v /\ i = prev.i /\ sp = prev.sp /\ stack = prev.stack /\ ram = prev.ram

C5_Witness ==
    /\ lastOp # <<>> /\ lastOp[1] = 14 /\ lastOp[3] = 9
    /\ prev.v[lastOp[2]] \in prev.keys
    /\ pc = prev.pc + 4

\* C6: after 8xy4 VF = 1 iff Vx + Vy > 255, after 8xy5 VF = 1 iff Vx >= Vy,
\* after 8xy7 VF = 1 iff Vy >= Vx, else 0, on the values before the
\* instruction; for x # F the new Vx is the sum or difference modulo 256.
C6_AddSubFlags ==
    (lastOp # <<>> /\ lastOp[1] = 8 /\ lastOp[4] \in {4, 5, 7}) =>
        LET x == lastOp[2]
            a == prev.v[lastOp[2]]
            b == prev.v[lastOp[3]]
        IN  /\ Completed
            /\ lastOp[4] = 4 =>
                  /\ v[15] = (IF a + b > 255 THEN 1 ELSE 0)
                  /\ x # 15 => v[x] = (a + b) % 256
            /\ lastOp[4] = 5 =>
                  /\ v[15] = (IF a >= b THEN 1 ELSE 0)
                  /\ x # 15 => v[x] = (a - b) % 256
            /\ lastOp[4] = 7 =>
                  /\ v[15] = (IF b >= a THEN 1 ELSE 0)
                  /\ x # 15 => v[x] = (b - a) % 256

C6_Witness ==
    /\ lastOp = <<8, 0, 1, 5>>
    /\ prev.v[0] = 1 /\ prev.v[1] = 2
    /\ v[0] = 255 /\ v[15] = 0

\* C7: after SHR VF is bit 0, after SHL bit 7, of Vx as it was before the
\* instruction, for every x.
C7_ShiftFlags ==
    (Completed /\ lastOp[1] = 8 /\ lastOp[4] \in {6, 14}) =>
        v[15] = (IF lastOp[4] = 6 THEN prev.v[lastOp[2]] % 2 ELSE prev.v[lastOp[2]] \div 128)

\* The words outside every defined opcode pattern.
UndefinedWord(op) ==
    \/ op[1] \in {5, 9} /\ op[4] # 0
    \/ op[1] = 8 /\ op[4] \in {8, 9, 10, 11, 12, 13, 15}
    \/ op[1] = 14 /\ <<op[3], op[4]>> \notin {<<9, 14>>, <<10, 1>>}
    \/ op[1] = 15 /\ <<op[3], op[4]>> \notin
          {<<0, 7>>, <<0, 10>>, <<1, 5>>, <<1, 8>>, <<1, 14>>, <<2, 9>>, <<3, 3>>, <<5, 5>>, <<6, 5>>}

\* C8: a word outside the defined patterns stops the machine in a decode
\* error that holds the word, with PC, registers, I, SP, stack, timers and
\* memory as they were, and no step follows; no other word does.
C8_DecodeErrors ==
    /\ (lastOp # <<>> /\ UndefinedWord(lastOp)) =>
          /\ run = "panicked" /\ fault = "todo" /\ faultOp = lastOp
          /\ pc = prev.pc /\ v = prev.v /\ i = prev.i /\ sp = prev.sp /\ stack = prev.stack
          /\ dt = prev.dt /\ st = prev.st /\ ram = prev.ram
    /\ fault = "todo" => (UndefinedWord(lastOp) /\ ~ENABLED NextChip)

C8_Witness == lastOp = <<8, 1, 2, 15>> /\ fault = "todo" /\ faultOp = <<8, 1, 2, 15>>

\* C9: a pass of run executes a step only with PC + 1 < 4096, and once
\* PC + 1 >= 4096 the loop ends as a normal completion, not as a fault.
C9_RunOffEnd ==
    /\ lastOp # <<>> => prev.pc + 1 < RAM_SIZE
    /\ pc + 1 >= RAM_SIZE => run \in {"running", "done"}

\* C10: a step that overruns its budget never aborts the run loop.
C10_OverrunNeverAborts == ~(run = "panicked" /\ fault = "duration")

\* C11: a completed LD Vx, K received a key event k in 0..F, left Vx = k and
\* PC 2 higher; while the step waits PC stays at the LD Vx, K and no step of
\* the CPU is taken; no other instruction waits.
C11_KeyWait ==
    /\ (Completed /\ Decode(lastOp) = "LD_Vx_K") =>
          /\ seen.key \in 0..15
          /\ v[lastOp[2]] = seen.key
          /\ pc = prev.pc + 2
    /\ (Completed /\ Decode(lastOp) # "LD_Vx_K") => seen.key = NoKey
    /\ run = "waiting" =>
          /\ Decode(Inst(fetch(ram, pc))) = "LD_Vx_K"
          /\ ~ENABLED RunCycle

\* C12: with 00E0 at 0x200 and 1200 at 0x202 on a fresh machine the run
\* loop, once entered, goes on for ever (it neither completes nor is
\* aborted), PC is 0x200 or 0x202, a pass from 0x200 calls Display::clear
\* once and a pass from 0x202 not at all, and registers, I, SP and memory
\* stay as loaded.
C12_ClearLoop ==
    (prog.kind = "clear" /\ run \notin {"new", "loaded"} /\ fault # "div_zero") =>
        /\ run = "running"
        /\ pc \in {HEAD_OF_PROGRAM, HEAD_OF_PROGRAM + 2}
        /\ lastOp # <<>> => seen.clears = (IF prev.pc = HEAD_OF_PROGRAM THEN 1 ELSE 0)
        /\ v = [r \in Regs |-> 0] /\ i = 0 /\ sp = 0
        /\ ram = load(load_slice(RamNew, HEAD_OF_SPRITE, concat(SPRITES)), HEAD_OF_PROGRAM, prog, 4).ram

\* C13: 6xkk leaves Vx = kk and 7xkk leaves Vx = (Vx + kk) mod 256, both
\* with PC 2 higher and, for x # F, VF as it was; after 6A02 and 7A05 on a
\* machine whose VF is 0, VA = 7 and VF = 0.
C13_ImmLoadAdd ==
    /\ (lastOp # <<>> /\ lastOp[1] \in {6, 7}) =>
          LET x == lastOp[2]
              kk == (16 * lastOp[3]) + lastOp[4]
          IN  /\ Completed
              /\ pc = prev.pc + 2
              /\ v[x] = (IF lastOp[1] = 6 THEN kk ELSE (prev.v[x] + kk) % 256)
              /\ x # 15 => v[15] = prev.v[15]
    /\ (prog.kind = "imm" /\ prog.arg = <<10, 2, 5, 0>> /\ lastOp = <<7, 10, 0, 5>>) =>
          (v[10] = 7 /\ v[15] = 0)

C13_Witness ==
    /\ prog.kind = "imm" /\ prog.arg = <<0, 255, 1, 1>>
    /\ lastOp = <<7, 0, 0, 1>> /\ prev.v[0] = 255 /\ v[0] = 0 /\ v[15] = 1

\* The pairs of bytes that differ from w in one bit, and w's bytes swapped.
Neighbours(w) ==
    {<<BitXor(w[1], 2 ^ k), w[2]>> : k \in 0..7}
        \cup {<<w[1], BitXor(w[2], 2 ^ k)>> : k \in 0..7}
        \cup {<<w[2], w[1]>>}

\* C14: the decoder's four fields are nibbles, (n0 << 4 | n1, n2 << 4 | n3)
\* is the pair decoded, addr(n1, n2, n3) is the low 12 bits of the word,
\* val(n2, n3) is the second byte, and no other pair decodes to the same
\* fields.
C14_DecodeRoundTrip ==
    inst # <<>> =>
        /\ Len(inst) = 4
        /\ \A k \in 1..4 : inst[k] \in 0..15
        /\ <<BitOr((inst[1] * 16) % U8, inst[2]), BitOr((inst[3] * 16) % U8, inst[4])>> = word
        /\ addr(inst[2], inst[3], inst[4]) = ((word[1] * 256) + word[2]) % 4096
        /\ valOf(inst[3], inst[4]) = word[2]
        /\ \A q \in Neighbours(word) : q # word => Inst(q) # inst

C14_Witness == word = <<171, 205>> /\ inst = <<10, 11, 12, 13>>

\* The rows DRW with n rows draws on machine m.
SpriteOf(m, n) == [k \in 1..n |-> RamGet(m.ram, m.i + k - 1)]

\* The last two cycles drew the same sprite, with at least one set bit, at
\* the same coordinates.
DrewTwice ==
    /\ Completed /\ Decode(lastOp) = "DRW"
    /\ prev2 # <<>> /\ prev.pc = prev2.pc + 2
    /\ Inst(fetch(prev2.ram, prev2.pc)) = lastOp
    /\ prev2.v[lastOp[2]] = prev.v[lastOp[2]] /\ prev2.v[lastOp[3]] = prev.v[lastOp[3]]
    /\ SpriteOf(prev2, lastOp[4]) = SpriteOf(prev, lastOp[4])
    /\ \E k \in 1..lastOp[4] : SpriteOf(prev, lastOp[4])[k] # 0

\* C15 as stated: the second of two equal draws leaves the framebuffer as it
\* was before the first and VF = 1, and DRW leaves VF 0 or 1.
C15_DrawTwice ==
    /\ DrewTwice => (fb = prev2.fb /\ v[15] = 1)
    /\ (Completed /\ Decode(lastOp) = "DRW") => v[15] \in {0, 1}

\* C15 amended: the second of two equal draws leaves the framebuffer as it
\* was before the first, and VF = 1 exactly when the first draw turned a
\* pixel on (always so on a cleared screen); DRW leaves VF 0 or 1, and 0 on
\* a cleared screen.
C15_DrawTwiceAmended ==
    /\ DrewTwice =>
          /\ fb = prev2.fb
          /\ v[15] = (IF prev.fb \ prev2.fb # {} THEN 1 ELSE 0)
          /\ prev2.fb = {} => v[15] = 1
    /\ (Completed /\ Decode(lastOp) = "DRW") =>
          /\ v[15] \in {0, 1}
          /\ prev.fb = {} => v[15] = 0

C15_Witness ==
    /\ DrewTwice /\ prog.kind = "draw" /\ prog.arg = <<255, 255, 15, 0>>
    /\ prev2.fb = {} /\ prev.fb # {} /\ fb = {} /\ v[15] = 1 /\ prev2.v[15] = 7
    /\ <<63, 31>> \in prev.fb /\ <<0, 31>> \in prev.fb /\ <<63, 0>> \in prev.fb

\* Memory as Chip::new leaves it.
FontRam == load_slice(RamNew, HEAD_OF_SPRITE, concat(SPRITES))

\* C16: after load has returned n, n is at most 4096 - 0x200 and at most the
\* stream's length, memory[0x200 .. 0x200 + n) holds the stream's first n
\* bytes, every address below 0x200 and every address from 0x200 + n on
\* holds what it held before, and PC is 0x200.
C16_Load ==
    run = "loaded" =>
        /\ seen.n <= RAM_SIZE - HEAD_OF_PROGRAM
        /\ seen.n <= StreamLen(prog)
        /\ DOMAIN ram \subseteq 0..(RAM_SIZE - 1)
        /\ \A a \in 0..(RAM_SIZE - 1) :
              RamGet(ram, a) =
                 (IF a >= HEAD_OF_PROGRAM /\ a < HEAD_OF_PROGRAM + seen.n
                    THEN RamGet(Image(prog.places), a)
                    ELSE RamGet(FontRam, a))
        /\ pc = HEAD_OF_PROGRAM

C16_Witness ==
    /\ run = "loaded" /\ prog.kind = "stream" /\ prog.arg = <<3>>
    /\ seen.n = RAM_SIZE - HEAD_OF_PROGRAM
    /\ RamGet(ram, HEAD_OF_PROGRAM) = 106 /\ RamGet(ram, RAM_SIZE - 1) = 7
    /\ RamGet(ram, 0) = 240

\* C17: PC is 0x200 until the first step; a completed step leaves PC at nnn
\* (0nnn, 1nnn, 2nnn), at V0 + nnn (Bnnn), at the saved address + 2 (00EE),
\* 2 or 4 higher (a skip), or 2 higher (any other instruction); and PC is
\* even as long as no 0nnn, 1nnn, 2nnn or Bnnn had an odd target.
C17_PcStepping ==
    /\ run \in {"new", "loaded"} => pc = HEAD_OF_PROGRAM
    /\ Completed =>
          LET k == Decode(lastOp)
              nnn == (256 * lastOp[2]) + (16 * lastOp[3]) + lastOp[4]
          IN  CASE k \in {"SYS", "JP", "CALL"} -> pc = nnn
                [] k = "JP_V0" -> pc = prev.v[0] + nnn
                [] k = "RET" -> pc = prev.stack[prev.sp - 1] + 2
                [] IsSkip(lastOp) ->
                     pc = prev.pc + (IF SkipCondition(lastOp, prev) THEN 4 ELSE 2)
                [] OTHER -> pc = prev.pc + 2
    /\ ~oddTarget => pc % 2 = 0

C17_Witness ==
    /\ Completed /\ Decode(lastOp) = "JP_V0" /\ prev.v[0] = 255
    /\ pc = 255 + (RAM_SIZE - 1) /\ ~oddTarget

\* C18: Fx33 with I + 2 < 4096 completes and leaves the hundreds, tens and
\* ones digit of Vx at I, I + 1 and I + 2, and every other byte of memory,
\* every register and I as they were.
C18_Bcd ==
    (lastOp # <<>> /\ Decode(lastOp) = "LD_B" /\ prev.i + 2 < RAM_SIZE) =>
        LET b == prev.v[lastOp[2]]
            h == RamGet(ram, prev.i)
            t == RamGet(ram, prev.i + 1)
            o == RamGet(ram, prev.i + 2)
        IN  /\ Completed
            /\ h = b \div 100 /\ t = (b \div 10) % 10 /\ o = b % 10
            /\ {h, t, o} \subseteq 0..9
            /\ (100 * h) + (10 * t) + o = b
            /\ \A a \in (0..(RAM_SIZE - 1)) \ (prev.i..(prev.i + 2)) :
                  RamGet(ram, a) = RamGet(prev.ram, a)
            /\ v = prev.v /\ i = prev.i

C18_Witness ==
    /\ lastOp = <<15, 1, 3, 3>> /\ Completed
    /\ prev.v[1] = 205 /\ prev.i = RAM_SIZE - 3
    /\ RamGet(ram, RAM_SIZE - 3) = 2 /\ RamGet(ram, RAM_SIZE - 2) = 0
    /\ RamGet(ram, RAM_SIZE - 1) = 5

\* C19: with I + x < 4096, Fx55 completes and leaves V0..Vx at I..I + x and
\* every other byte of memory, the registers and I as they were; Fx65
\* completes and leaves memory[I..I + x] in V0..Vx and V(x+1)..VF, memory
\* and I as they were; and the Fx65 that ends a "regs" program leaves in
\* V0..Vx what they held when its Fx55 stored them.
C19_StoreLoad ==
    /\ (lastOp # <<>> /\ Decode(lastOp) = "LD_I_Vx" /\ prev.i + lastOp[2] < RAM_SIZE) =>
          /\ Completed
          /\ \A k \in 0..lastOp[2] : RamGet(ram, prev.i + k) = prev.v[k]
          /\ \A a \in (0..(RAM_SIZE - 1)) \ (prev.i..(prev.i + lastOp[2])) :
                RamGet(ram, a) = RamGet(prev.ram, a)
          /\ v = prev.v /\ i = prev.i
    /\ (lastOp # <<>> /\ Decode(lastOp) = "LD_Vx_I" /\ prev.i + lastOp[2] < RAM_SIZE) =>
          /\ Completed
          /\ \A k \in 0..lastOp[2] : v[k] = RamGet(prev.ram, prev.i + k)
          /\ \A k \in (lastOp[2] + 1)..15 : v[k] = prev.v[k]
          /\ ram = prev.ram /\ i = prev.i
    /\ (prog.kind = "regs" /\ lastOp # <<>> /\ Decode(lastOp) = "LD_Vx_I"
           /\ prev.pc = HEAD_OF_PROGRAM + 16) =>
          \A k \in 0..lastOp[2] : v[k] = RegsStored(prog.arg, k)

C19_Witness ==
    /\ prog.kind = "regs" /\ prog.arg = <<15, RAM_SIZE - 16, 255, 0, 128>>
    /\ lastOp = <<15, 15, 6, 5>> /\ Completed /\ prev.pc = HEAD_OF_PROGRAM + 16
    /\ prev.v[0] = 85 /\ prev.v[15] = 85
    /\ v[0] = 255 /\ v[1] = 0 /\ v[15] = 128 /\ RamGet(ram, RAM_SIZE - 1) = 128

\* The bytes the font takes, and whether memory r holds glyph g at address a.
FontSize == Len(concat(SPRITES))

GlyphAt(r, a, g) == \A k \in 0..4 : RamGet(r, a + k) = SPRITES[g + 1][k + 1]

FontIntact(r) == \A g \in 0..15 : GlyphAt(r, HEAD_OF_SPRITE + 5 * g, g)

\* C20: the font is 16 glyphs of 5 bytes with low nibble zero, 0x50 bytes in
\* all; after construction (and after the program is loaded) memory[5g ..
\* 5g + 4] is glyph g and, before the load, every byte from 0x50 on is 0;
\* the font is changed only by a store (Fx33, Fx55) that writes below 0x50,
\* which a store that completes does only with I below 0x50; and Fx29
\* with Vx in 0..F completes with I = 5 * Vx, PC two higher and nothing
\* else changed, so that memory[I .. I + 4] is glyph Vx while the font is
\* as constructed.
C20_Font ==
    /\ FontSize = 80
    /\ \A g \in 1..16 : \A k \in 1..5 : SPRITES[g][k] % 16 = 0
    /\ lastOp = <<>> => FontIntact(ram)
    /\ run = "new" => \A a \in FontSize..(RAM_SIZE - 1) : RamGet(ram, a) = 0
    /\ (lastOp # <<>> /\ FontIntact(prev.ram) /\ ~FontIntact(ram)) =>
          /\ Decode(lastOp) \in {"LD_B", "LD_I_Vx"}
          /\ Completed => prev.i < FontSize
    /\ (lastOp # <<>> /\ Decode(lastOp) = "LD_F" /\ prev.v[lastOp[2]] <= 15) =>
          /\ Completed
          /\ i = 5 * prev.v[lastOp[2]]
          /\ pc = prev.pc + 2
          /\ v = prev.v /\ ram = prev.ram /\ sp = prev.sp /\ fb = prev.fb
          /\ FontIntact(prev.ram) => GlyphAt(ram, i, prev.v[lastOp[2]])

C20_Witness ==
    /\ prog.kind = "font" /\ prog.arg = <<15, 15>>
    /\ lastOp = <<15, 15, 2, 9>> /\ Completed
    /\ i = 75 /\ pc = HEAD_OF_PROGRAM + 4
    /\ RamGet(ram, 75) = 240 /\ RamGet(ram, 76) = 128 /\ RamGet(ram, 79) = 128

\* The last address Fx33, Fx55, Fx65 or Dxyn (n > 0) at I = a reaches.
LastAddress(op, a) ==
    IF Decode(op) = "LD_B" THEN a + 2
    ELSE IF Decode(op) = "DRW" THEN a + op[4] - 1
    ELSE a + op[2]

IndexRelative(op) ==
    \/ Decode(op) \in {"LD_B", "LD_I_Vx", "LD_Vx_I"}
    \/ Decode(op) = "DRW" /\ op[4] > 0

\* C21: an Fx33, Fx55, Fx65 or Dxyn whose range I .. I + k reaches 4096 or
\* beyond stops the machine with a failure, writes no byte of memory
\* outside I .. 4095, reads into a register only the byte at I + k < 4096,
\* and draws nothing.
C21_NoWrap ==
    (lastOp # <<>> /\ IndexRelative(lastOp) /\ LastAddress(lastOp, prev.i) >= RAM_SIZE) =>
        /\ fault \notin {"none", "duration"}
        /\ \A a \in 0..(RAM_SIZE - 1) :
              RamGet(ram, a) # RamGet(prev.ram, a) => a >= prev.i
        /\ DOMAIN ram \subseteq 0..(RAM_SIZE - 1)
        /\ \A k \in Regs :
              v[k] # prev.v[k] =>
                /\ Decode(lastOp) = "LD_Vx_I" /\ k <= lastOp[2] /\ prev.i + k < RAM_SIZE
                /\ v[k] = RamGet(prev.ram, prev.i + k)
        /\ fb = prev.fb /\ i = prev.i

\* What a step of the keyboard and of the CPU's wait may do: a key is
\* handed over only to a CPU blocked in wait with nothing handed over yet,
\* and is recorded as pressed; wait returns the one key handed over, into
\* Vx, and that key is gone; a handed-over key goes nowhere else; a key
\* pressed while the CPU does not wait is recorded and not handed over;
\* the pressed set loses keys only by being cleared; SKP sees it.
KeyStep ==
    /\ (chan' # chan /\ chan' # NoKey) =>
          /\ run = "waiting" /\ run' = "waiting" /\ chan = NoKey
          /\ chan' \in pressed' /\ chan' \in 0..15
    /\ (run = "waiting" /\ run' # "waiting") =>
          /\ chan # NoKey /\ chan' = NoKey
          /\ v'[Inst(fetch(ram, pc))[2]] = chan
          /\ lastOp' = Inst(fetch(ram, pc))
    /\ (chan # NoKey /\ chan' = NoKey) => (run = "waiting" /\ run' # "waiting")
    /\ (run # "waiting" /\ pressed' # pressed /\ pressed' # {}) =>
          /\ pressed \subseteq pressed'
          /\ chan' = NoKey /\ run' = run
    /\ ~(pressed \subseteq pressed') => pressed' = {}
    /\ (run = "running" /\ run' = "running" /\ pc' # pc
           /\ Decode(Inst(fetch(ram, pc))) = "SKP") =>
          pc' = pc + (IF v[Inst(fetch(ram, pc))[2]] \in pressed THEN 4 ELSE 2)

\* C22: no key is held for a CPU that is not waiting, so a wait starts with
\* nothing handed over; every step is a KeyStep; and a CPU that waits while
\* keys keep being pressed leaves the wait.
C22_Rendezvous ==
    /\ [](run # "waiting" => chan = NoKey)
    /\ [][KeyStep]_vars
    /\ (run = "waiting") ~> (run # "waiting")

\* The second wait of program 0 has returned; the wait of program 1, begun
\* after key 1 was seen pressed, has returned.
C22_Witness ==
    /\ prog.kind = "keys" /\ Completed /\ Decode(lastOp) = "LD_Vx_K"
    /\ lastOp[2] = 2 /\ v[2] = 1 /\ seen.key = 1 /\ chan = NoKey
    /\ run = "running"

====
